---- MODULE Spec2Model ----
(***************************************************************************)
(* A model of package ergo (errors.go): the process-wide domain registry,  *)
(* the Error record with its constructors New/Make and Wrap, the chain     *)
(* operations Chain and Cause, and the renderers Message and Error.        *)
(*                                                                         *)
(* A Go string is modelled as a sequence of chunks (a text); the chunk     *)
(* "\n" is a line break, and the empty sequence is the empty string.       *)
(* A pointer to an Error is an index into heap; 0 is the nil pointer.      *)
(***************************************************************************)
EXTENDS Integers, Sequences, FiniteSets, TLC

VARIABLES
    domains,    \* the registry: domain name -> renderer
    heap,       \* the Error records allocated so far, by address
    ret,        \* the last call made: its operation, inputs and outcome
    declared    \* the DomainMap each successful Domain call was given

vars == <<domains, heap, ret, declared>>

(***************************************************************************)
(* Bounds of the model.                                                    *)
(***************************************************************************)
MaxErrs  == 3       \* Error records allocated in one behaviour of ChainSpec
MaxBuilt == 1       \* Error records allocated in one behaviour of Spec
MaxKept  == 2       \* Error records allocated in one behaviour of RegSpec
MaxArgs  == 3       \* variadic arguments passed to New/Make and Wrap in Spec

(***************************************************************************)
(* Texts.                                                                  *)
(***************************************************************************)
NL == "\n"

Digits == <<"0", "1", "2", "3", "4", "5", "6", "7", "8", "9">>

RECURSIVE Itoa(_)
\* the %d / %v form of an integer
Itoa(n) ==
    IF n < 0 THEN <<"-">> \o Itoa(0 - n)
    ELSE IF n < 10 THEN <<Digits[n + 1]>>
    ELSE Itoa(n \div 10) \o <<Digits[(n % 10) + 1]>>

(***************************************************************************)
(* Values of type interface{}: a string (s is its text) or an int (n).     *)
(***************************************************************************)
StrV(s) == [t |-> "string", s |-> s, n |-> 0]
IntV(n) == [t |-> "int", s |-> <<>>, n |-> n]

\* fmt's %v form of a value
FmtV(v) == IF v.t = "string" THEN v.s ELSE Itoa(v.n)

(***************************************************************************)
(* ErrInfo: a map from string to interface{}.                              *)
(***************************************************************************)
EmptyInfo == [k \in {} |-> StrV(<<>>)]

\* the map assignment m[k] = v
Put(m, k, v) == [q \in (DOMAIN m) \cup {k} |-> IF q = k THEN v ELSE m[q]]

(***************************************************************************)
(* The Error record.  nil is address 0.                                    *)
(***************************************************************************)
Nil == 0

ErrorRec(domain, code, info, context, inner) ==
    [Domain |-> domain, Code |-> code, Info |-> info,
     Context |-> context, Inner |-> inner]

(***************************************************************************)
(* stackTrace.  A call stack is a sequence of function names, the running  *)
(* function first; runtime.Callers(k, buf) fills buf with the frames from  *)
(* the k-th (0 is Callers itself) up to len(buf) frames.                   *)
(***************************************************************************)
StackBuf == 50

Min(a, b) == IF a < b THEN a ELSE b

\* runtime.Callers(k, stack[:]) called with callStack above it
Callers(k, callStack) ==
    LET all == <<"runtime.Callers">> \o callStack
        n   == Min(StackBuf, IF Len(all) > k THEN Len(all) - k ELSE 0)
    IN  SubSeq(all, k + 1, k + n)

RECURSIVE Frames(_)
\* the two lines printed per frame: "file:line\n" and "\tfunction\n"
Frames(pcs) ==
    IF pcs = <<>> THEN <<>>
    ELSE <<"file:line of ", Head(pcs), NL, "\t", Head(pcs), NL>> \o Frames(Tail(pcs))

stackTrace(skip, callStack) ==
    Frames(Callers(skip + 1, <<"stackTrace">> \o callStack))

(***************************************************************************)
(* New / Make.                                                             *)
(***************************************************************************)
RECURSIVE PairArgs(_, _, _)
\* the loop over args: name is the pending key ("" when none is pending);
\* arg.(string) panics on an argument that is not a string
PairArgs(args, name, info) ==
    IF args = <<>> THEN [ok |-> TRUE, info |-> info]
    ELSE LET arg == Head(args) IN
         IF name = <<>>
         THEN IF arg.t = "string"
              THEN PairArgs(Tail(args), arg.s, info)
              ELSE [ok |-> FALSE, info |-> info]
         ELSE PairArgs(Tail(args), <<>>, Put(info, name, arg))

\* New that refuses a domain that is not registered
NewRegisteredOnly(skip, domain, code, args, callStack) ==
    LET ctx == stackTrace(skip + 2, <<"New">> \o callStack)
        p   == PairArgs(args, <<>>, EmptyInfo)
    IN  [ok |-> p.ok /\ domain \in DOMAIN domains,
         err |-> ErrorRec(domain, code, p.info, ctx, Nil)]

\* New(skip, domain, code, args...) called with callStack above it; the
\* result is the record built, or a panic (ok = FALSE)
New(skip, domain, code, args, callStack) ==
    LET ctx == stackTrace(skip + 2, <<"New">> \o callStack)
        p   == PairArgs(args, <<>>, EmptyInfo)
    IN  [ok |-> p.ok, err |-> ErrorRec(domain, code, p.info, ctx, Nil)]

\* _Wrap(skip, err, args...): msg is err.Error()
_Wrap(skip, msg, args, callStack) ==
    LET sys == <<StrV(<<"_err">>), StrV(msg)>>
    IN  New(skip + 1, "go", 0, sys \o args, <<"_Wrap">> \o callStack)

\* the inputs of Wrap: the nil interface, a *Error (its address, 0 for a nil
\* pointer), a native error (msg is its Error() text), or any other value
XNil         == [k |-> "nil",   id |-> 0,  v |-> StrV(<<>>)]
XPtr(id)     == [k |-> "ptr",   id |-> id, v |-> StrV(<<>>)]
XError(msg)  == [k |-> "error", id |-> 0,  v |-> StrV(msg)]
XValue(v)    == [k |-> "value", id |-> 0,  v |-> v]

NoErr == ErrorRec("", 0, EmptyInfo, <<>>, Nil)

\* Wrap without its x.(*Error) case: an Error is wrapped like any other error
WrapNoIdentity(x, args, callStack) ==
    IF x.k = "nil" THEN [ok |-> TRUE, fresh |-> FALSE, ref |-> Nil, err |-> NoErr]
    ELSE LET msg == IF x.k = "error" THEN x.v.s
                    ELSE IF x.k = "ptr" THEN <<"an Error">> ELSE FmtV(x.v)
             r   == _Wrap(1, msg, args, <<"Wrap">> \o callStack)
         IN  [ok |-> r.ok, fresh |-> r.ok, ref |-> Nil, err |-> r.err]

\* Wrap without its x == nil case: nil is formatted like any other value
WrapNoNil(x, args, callStack) ==
    IF x.k = "ptr" THEN [ok |-> TRUE, fresh |-> FALSE, ref |-> x.id, err |-> NoErr]
    ELSE LET msg == IF x.k = "error" THEN x.v.s
                    ELSE IF x.k = "nil" THEN <<"<nil>">> ELSE FmtV(x.v)
             r   == _Wrap(1, msg, args, <<"Wrap">> \o callStack)
         IN  [ok |-> r.ok, fresh |-> r.ok, ref |-> Nil, err |-> r.err]

\* Wrap(x, args...): fresh says whether a record was built (err), ref is
\* the pointer returned when none was
Wrap(x, args, callStack) ==
    IF x.k = "nil" THEN [ok |-> TRUE, fresh |-> FALSE, ref |-> Nil, err |-> NoErr]
    ELSE IF x.k = "ptr" THEN [ok |-> TRUE, fresh |-> FALSE, ref |-> x.id, err |-> NoErr]
    ELSE LET msg == IF x.k = "error" THEN x.v.s ELSE FmtV(x.v)
             r   == _Wrap(1, msg, args, <<"Wrap">> \o callStack)
         IN  [ok |-> r.ok, fresh |-> r.ok, ref |-> Nil, err |-> r.err]

(***************************************************************************)
(* Chain and Cause.                                                        *)
(***************************************************************************)
\* Chain(inner, err): the heap after err.Inner = inner (err is not nil)
Chain(h, inner, err) == [h EXCEPT ![err].Inner = inner]

\* Cause that returns err.Inner instead of Cause(err.Inner)
CauseOneStep(h, err, fuel) ==
    IF fuel = 0 THEN [ok |-> FALSE, ref |-> Nil]
    ELSE IF h[err].Inner = Nil THEN [ok |-> TRUE, ref |-> err]
    ELSE [ok |-> TRUE, ref |-> h[err].Inner]

RECURSIVE CauseRec(_, _, _)
\* Cause(err) with at most fuel calls still allowed: ok is FALSE when the
\* recursion does not end within them
CauseRec(h, err, fuel) ==
    IF fuel = 0 THEN [ok |-> FALSE, ref |-> Nil]
    ELSE IF h[err].Inner = Nil THEN [ok |-> TRUE, ref |-> err]
    ELSE CauseRec(h, h[err].Inner, fuel - 1)

\* Cause(err): a walk longer than the heap has entered a cycle and never
\* ends (ok is FALSE)
Cause(h, err) == CauseRec(h, err, Len(h))

(***************************************************************************)
(* Templates (text/template).  A chunk "{{.key}}" of the source text is a  *)
(* field action, an unclosed "{{" does not parse, any other chunk is       *)
(* literal text.                                                           *)
(***************************************************************************)
FieldKeys == [a \in {"{{.name}}", "{{.x}}"} |->
                 IF a = "{{.name}}" THEN <<"name">> ELSE <<"x">>]

\* template.New(name).Parse(text)
Parse(name, text) ==
    [ok    |-> \A i \in 1..Len(text) : text[i] # "{{",
     name  |-> name,
     nodes |-> [i \in 1..Len(text) |->
                  IF text[i] \in DOMAIN FieldKeys
                  THEN [field |-> TRUE,  s |-> FieldKeys[text[i]]]
                  ELSE [field |-> FALSE, s |-> <<text[i]>>]]]

RECURSIVE ExecNodes(_, _)
ExecNodes(nodes, info) ==
    IF nodes = <<>> THEN <<>>
    ELSE LET nd == Head(nodes)
             out == IF ~nd.field THEN nd.s
                    ELSE IF nd.s \in DOMAIN info THEN FmtV(info[nd.s])
                    ELSE <<"<no value>">>
         IN  out \o ExecNodes(Tail(nodes), info)

\* Execute that is given no data
ExecuteNoInfo(tmpl, info) == ExecNodes(tmpl.nodes, EmptyInfo)

\* tmpl.Execute(&buf, info); buf.String()
Execute(tmpl, info) == ExecNodes(tmpl.nodes, info)

(***************************************************************************)
(* The registry.  A renderer is a FormatFunc: a function given by the      *)
(* caller (fn names it) or the closure Domain builds over tmpls.           *)
(***************************************************************************)
NoTmpls == [c \in {} |-> Parse(<<>>, <<>>)]

FuncRenderer(fn)    == [kind |-> "func", fn |-> fn, tmpls |-> NoTmpls]
TmplRenderer(tmpls) == [kind |-> "tmpl", fn |-> "",  tmpls |-> tmpls]

\* the registry after init()
InitDomains == [d \in {"go"} |-> FuncRenderer("goFn")]

\* DomainFunc without its conflict check
DomainFuncOverwrite(reg, name, fn) ==
    [ok |-> TRUE, reg |-> [d \in (DOMAIN reg) \cup {name} |->
                             IF d = name THEN fn ELSE reg[d]]]

\* DomainFunc(name, fn): panics (ok = FALSE) on a name already registered
DomainFunc(reg, name, fn) ==
    IF name \in DOMAIN reg
    THEN [ok |-> FALSE, reg |-> reg]
    ELSE [ok |-> TRUE,  reg |-> [d \in (DOMAIN reg) \cup {name} |->
                                   IF d = name THEN fn ELSE reg[d]]]

\* Domain(name, domain): template.Must panics on a text that does not parse
Domain(reg, name, domain) ==
    LET tmpls == [code \in DOMAIN domain |->
                    Parse(<<"[", name, ":">> \o Itoa(code) \o <<"]">>, domain[code])]
    IN  IF \E code \in DOMAIN domain : ~tmpls[code].ok
        THEN [ok |-> FALSE, reg |-> reg]
        ELSE DomainFunc(reg, name, TmplRenderer(tmpls))

(***************************************************************************)
(* Rendering.                                                              *)
(***************************************************************************)
\* the keys the model uses, in the order fmt prints a map (sorted)
SortedKeys == << <<"_err">>, <<"arg">>, <<"name">>, <<"x">> >>

RECURSIVE FmtPairs(_, _, _)
FmtPairs(keys, info, first) ==
    IF keys = <<>> THEN <<>>
    ELSE IF Head(keys) \notin DOMAIN info THEN FmtPairs(Tail(keys), info, first)
    ELSE (IF first THEN <<>> ELSE <<" ">>)
         \o Head(keys) \o <<":">> \o FmtV(info[Head(keys)])
         \o FmtPairs(Tail(keys), info, FALSE)

\* fmt's %v form of an ErrInfo
FmtMap(info) == <<"map[">> \o FmtPairs(SortedKeys, info, TRUE) \o <<"]">>

\* the call fn(err) of a FormatFunc; ok is FALSE when it panics
Apply(r, err) ==
    IF r.kind = "tmpl"
    THEN IF err.Code \in DOMAIN r.tmpls
         THEN [ok |-> TRUE, text |-> Execute(r.tmpls[err.Code], err.Info)]
         ELSE [ok |-> TRUE, text |-> <<"Unknown error">>]
    ELSE IF r.fn = "goFn"
    THEN IF <<"_err">> \in DOMAIN err.Info /\ err.Info[<<"_err">>].t = "string"
         THEN [ok |-> TRUE, text |-> <<"Error: ">> \o err.Info[<<"_err">>].s]
         ELSE [ok |-> FALSE, text |-> <<>>]
    ELSE [ok |-> TRUE, text |-> <<r.fn, " says ">> \o Itoa(err.Code)]

\* err.Message()
Message(reg, err) ==
    IF err.Domain \in DOMAIN reg
    THEN Apply(reg[err.Domain], err)
    ELSE [ok |-> TRUE,
          text |-> <<"Domain missing: [", err.Domain, ":">> \o Itoa(err.Code)
                   \o <<"] ">> \o FmtMap(err.Info)]

RECURSIVE ErrorTextOuterFirst(_, _, _, _)
\* Error that puts the block of err before the text of err.Inner
ErrorTextOuterFirst(reg, h, err, fuel) ==
    IF fuel = 0 THEN [ok |-> FALSE, text |-> <<>>]
    ELSE LET m   == Message(reg, h[err])
             str == <<"[", h[err].Domain, ":">> \o Itoa(h[err].Code) \o <<"] ">>
                    \o m.text \o <<NL>> \o h[err].Context
         IN  IF ~m.ok THEN [ok |-> FALSE, text |-> <<>>]
             ELSE IF h[err].Inner = Nil THEN [ok |-> TRUE, text |-> str]
             ELSE LET in == ErrorTextOuterFirst(reg, h, h[err].Inner, fuel - 1)
                  IN  [ok |-> in.ok, text |-> str \o <<NL>> \o in.text]

RECURSIVE ErrorTextRec(_, _, _, _)
\* err.Error() with at most fuel calls still allowed
ErrorTextRec(reg, h, err, fuel) ==
    IF fuel = 0 THEN [ok |-> FALSE, text |-> <<>>]
    ELSE LET m   == Message(reg, h[err])
             str == <<"[", h[err].Domain, ":">> \o Itoa(h[err].Code) \o <<"] ">>
                    \o m.text \o <<NL>> \o h[err].Context
         IN  IF ~m.ok THEN [ok |-> FALSE, text |-> <<>>]
             ELSE IF h[err].Inner = Nil THEN [ok |-> TRUE, text |-> str]
             ELSE LET in == ErrorTextRec(reg, h, h[err].Inner, fuel - 1)
                  IN  [ok |-> in.ok, text |-> in.text \o <<NL>> \o str]

\* err.Error(): ok is FALSE when a renderer panics or the walk never ends
ErrorText(reg, h, err) == ErrorTextRec(reg, h, err, Len(h))

(***************************************************************************)
(* The calls.  Every call is made from the same place, so the call stack   *)
(* above the package's own functions is UserStack.  A panic (ok = FALSE)   *)
(* unwinds the call; the state it leaves is the state the next call sees   *)
(* when the caller recovers.                                               *)
(***************************************************************************)
UserStack == <<"caller", "main">>

Ret(op, in, ok, ref, text) ==
    [op |-> op, in |-> in, ok |-> ok, ref |-> ref, text |-> text]

Refs == 1..Len(heap)

Init ==
    /\ domains = InitDomains
    /\ heap = <<>>
    /\ declared = [d \in {} |-> <<>>]
    /\ ret = Ret("init", <<>>, TRUE, Nil, <<>>)

CallDomainFunc(name, fn) ==
    LET r == DomainFunc(domains, name, FuncRenderer(fn))
    IN  /\ domains' = r.reg
        /\ ret' = Ret("DomainFunc", [name |-> name, fn |-> fn], r.ok, Nil, <<>>)
        /\ UNCHANGED <<heap, declared>>

CallDomain(name, domain) ==
    LET r == Domain(domains, name, domain)
    IN  /\ domains' = r.reg
        /\ declared' = IF r.ok
                       THEN [d \in (DOMAIN declared) \cup {name} |->
                               IF d = name THEN domain ELSE declared[d]]
                       ELSE declared
        /\ ret' = Ret("Domain", [name |-> name, domain |-> domain], r.ok, Nil, <<>>)
        /\ UNCHANGED heap

\* a call of New or Wrap that builds a record puts it at a fresh address
CallNew(bound, skip, domain, code, args) ==
    LET r  == New(skip, domain, code, args, UserStack)
        in == [skip |-> skip, domain |-> domain, code |-> code, args |-> args]
    IN  /\ Len(heap) < bound
        /\ heap' = IF r.ok THEN Append(heap, r.err) ELSE heap
        /\ ret' = Ret("New", in, r.ok, IF r.ok THEN Len(heap) + 1 ELSE Nil, <<>>)
        /\ UNCHANGED <<domains, declared>>

CallWrap(bound, x, args) ==
    LET r == Wrap(x, args, UserStack)
    IN  /\ Len(heap) < bound \/ x.k \in {"nil", "ptr"}
        /\ heap' = IF r.fresh THEN Append(heap, r.err) ELSE heap
        /\ ret' = Ret("Wrap", [x |-> x, args |-> args], r.ok,
                      IF r.fresh THEN Len(heap) + 1 ELSE r.ref, <<>>)
        /\ UNCHANGED <<domains, declared>>

\* Chain(inner, err) dereferences err: a nil err panics
CallChain(inner, err) ==
    /\ heap' = IF err = Nil THEN heap ELSE Chain(heap, inner, err)
    /\ ret' = Ret("Chain", [inner |-> inner, err |-> err], err # Nil, err, <<>>)
    /\ UNCHANGED <<domains, declared>>

\* Cause(err): a call that never ends, or is made on nil, returns nothing
CallCause(err) ==
    LET r == IF err = Nil THEN [ok |-> FALSE, ref |-> Nil] ELSE Cause(heap, err)
    IN  /\ ret' = Ret("Cause", [err |-> err], r.ok, r.ref, <<>>)
        /\ UNCHANGED <<domains, heap, declared>>

CallMessage(err) ==
    LET r == Message(domains, heap[err])
    IN  /\ ret' = Ret("Message", [err |-> err], r.ok, Nil, r.text)
        /\ UNCHANGED <<domains, heap, declared>>

CallError(err) ==
    LET r == ErrorText(domains, heap, err)
    IN  /\ ret' = Ret("Error", [err |-> err], r.ok, Nil, r.text)
        /\ UNCHANGED <<domains, heap, declared>>

(***************************************************************************)
(* Spec: the constructors New/Make and Wrap on argument lists of every     *)
(* shape: string and non-string arguments, the empty string, the reserved  *)
(* key "_err", lists of even and of odd length; Wrap is also called on     *)
(* nil, on a nil *Error and on the Errors built.                           *)
(***************************************************************************)
SeqsUpTo(S, n) == UNION {[1..k -> S] : k \in 0..n}

ArgVals == {StrV(<<>>), StrV(<<"_err">>), IntV(1)}

ArgLists == SeqsUpTo(ArgVals, MaxArgs)

\* the foreign values Wrap is given: a native error, a string, an int
Foreign == {XError(<<"EOF">>), XValue(StrV(<<"Random error">>)), XValue(IntV(7))}

\* what Wrap is given besides: nil, a nil *Error, an Error built before
Xs == {XNil, XPtr(Nil)} \cup {XPtr(e) : e \in Refs}

\* the extra arguments passed along with those: none, a pair, a pair on the
\* reserved key, a lone non-string, three arguments with an empty key
ExtraArgs == {<<>>,
              <<StrV(<<"name">>), IntV(1)>>,
              <<StrV(<<"_err">>), StrV(<<>>)>>,
              <<IntV(1)>>,
              <<StrV(<<>>), IntV(1), StrV(<<"_err">>)>>}

Next ==
    \/ \E args \in ArgLists : CallNew(MaxBuilt, 0, "x", 1, args)
    \/ \E x \in Foreign, args \in ArgLists : CallWrap(MaxBuilt, x, args)
    \/ \E x \in Xs, args \in ExtraArgs : CallWrap(MaxBuilt, x, args)

Spec == Init /\ [][Next]_vars

(***************************************************************************)
(* Properties of the constructors, checked under Spec.                     *)
(***************************************************************************)
\* the message/string form of a foreign x
XMsg(x) == IF x.k = "error" THEN x.v.s
           ELSE IF x.v.t = "string" THEN x.v.s ELSE Itoa(x.v.n)

IsForeign(x) == x.k \in {"error", "value"}

\* C2: whenever Wrap(x, args...) of a non-nil x that is not an Error
\* returns, it returns a new Error with Domain "go", Code 0 and
\* Info["_err"] equal to x's message/string form, whatever args are
C2_WrapForeign ==
    (ret.op = "Wrap" /\ IsForeign(ret.in.x) /\ ret.ok) =>
        /\ ret.ref = Len(heap)
        /\ ret.ref # Nil
        /\ heap[ret.ref].Domain = "go"
        /\ heap[ret.ref].Code = 0
        /\ <<"_err">> \in DOMAIN heap[ret.ref].Info
        /\ heap[ret.ref].Info[<<"_err">>] = StrV(XMsg(ret.in.x))

\* C3: a step that calls Wrap on an existing Error returns that same
\* address and leaves every record of the heap (Domain, Code, Info, Context,
\* Inner) as it was, whatever args are; in particular Wrap of what Wrap
\* just returned returns it again
C3_WrapIdentity ==
    [][ (ret'.op = "Wrap" /\ ret'.in.x.k = "ptr" /\ ret'.in.x.id # Nil) =>
            /\ ret'.ok
            /\ ret'.ref = ret'.in.x.id
            /\ heap' = heap
            /\ (ret.op = "Wrap" /\ ret.ok /\ ret'.in.x.id = ret.ref)
                   => ret'.ref = ret.ref ]_vars

\* Wrap, given extra arguments, has returned an Error that Wrap built
C3_Witness ==
    /\ ret.op = "Wrap" /\ ret.in.x.k = "ptr" /\ ret.in.x.id # Nil
    /\ ret.in.args # <<>>
    /\ ret.ref = ret.in.x.id
    /\ heap[ret.ref].Domain = "go"

\* C4 as stated: a call of New/Make or Wrap that returns nil is Wrap(nil),
\* the nil interface, and Wrap(nil) returns nil
C4_OnlyNilPath ==
    (ret.op \in {"New", "Wrap"} /\ ret.ok) =>
        (ret.ref = Nil <=> (ret.op = "Wrap" /\ ret.in.x.k = "nil"))

\* C4 amended: a call of New/Make or Wrap that returns, returns nil exactly
\* when it is Wrap of the nil interface or of a nil *Error; otherwise it
\* returns the address of an Error
C4_NilPaths ==
    (ret.op \in {"New", "Wrap"} /\ ret.ok) =>
        /\ ret.ref = Nil <=>
              /\ ret.op = "Wrap"
              /\ \/ ret.in.x.k = "nil"
                 \/ ret.in.x.k = "ptr" /\ ret.in.x.id = Nil
        /\ ret.ref # Nil => ret.ref \in Refs

\* Wrap of a nil *Error has returned nil
C4_Witness ==
    ret.op = "Wrap" /\ ret.in.x = XPtr(Nil) /\ ret.ok /\ ret.ref = Nil

\* the mapping ki -> vi of the pairs of an argument list, the later pair
\* winning on a repeated key; a final unpaired argument is left out
PairsOf(args) ==
    LET n    == Len(args) \div 2
        last(k) == CHOOSE i \in 1..n :
                      /\ args[2 * i - 1].s = k
                      /\ \A j \in (i + 1)..n : args[2 * j - 1].s # k
    IN  [k \in {args[2 * i - 1].s : i \in 1..n} |-> args[2 * last(k)]]

StringKeys(args) == \A i \in 1..Len(args) : i % 2 = 1 => args[i].t = "string"

\* C9: New/Make given k1,v1,...,kn,vn with string keys, optionally followed
\* by one unpaired argument, returns an Error whose Info is exactly the
\* mapping ki -> vi
C9_PairsIntoInfo ==
    (ret.op = "New" /\ StringKeys(ret.in.args)) =>
        /\ ret.ok
        /\ heap[ret.ref].Info = PairsOf(ret.in.args)

(***************************************************************************)
(* ChainSpec: chains.  Errors built by New and by Wrap are linked by Chain *)
(* in every way (nil included), Wrap is called on them, and Cause is       *)
(* called on every one of them.                                            *)
(***************************************************************************)
NextChain ==
    \/ CallNew(MaxErrs, 0, "ergo", 1, <<>>)
    \/ \E x \in {XError(<<"EOF">>)} \cup {XPtr(e) : e \in Refs} : CallWrap(MaxErrs, x, <<>>)
    \/ \E inner \in Refs \cup {Nil}, err \in Refs \cup {Nil} : CallChain(inner, err)
    \/ \E err \in Refs \cup {Nil} : CallCause(err)

ChainSpec == Init /\ [][NextChain]_vars

(***************************************************************************)
(* RenderSpec: the full text of chains.  Errors of two codes with an empty *)
(* Context and a one-line message, and wrapped values whose message has an *)
(* empty line, are linked by Chain and rendered by Error.                  *)
(***************************************************************************)
Blank == XValue(StrV(<<"a", NL, NL, "b">>))

NextRender ==
    \/ \E code \in {0, 1} : CallNew(MaxErrs, 2, "ergo", code, <<>>)
    \/ CallWrap(MaxErrs, Blank, <<>>)
    \/ \E inner \in Refs \cup {Nil}, err \in Refs : CallChain(inner, err)
    \/ \E err \in Refs : CallError(err)

RenderSpec == Init /\ [][NextRender]_vars

(***************************************************************************)
(* Properties of chains.                                                   *)
(***************************************************************************)
RECURSIVE Walk(_, _, _)
\* the addresses met in at most n steps along Inner from e, e not counted
Walk(h, e, n) ==
    IF n = 0 \/ h[e].Inner = Nil THEN {}
    ELSE {h[e].Inner} \cup Walk(h, h[e].Inner, n - 1)

\* the addresses reachable from e through one or more Inner links
Reach(e) == Walk(heap, e, Len(heap))

Links(e) == {e} \cup Reach(e)

Acyclic(e) == \A l \in Links(e) : l \notin Reach(l)

\* C5: on an acyclic chain, Cause of every link returns the one link of the
\* chain whose Inner is absent, and Cause of a chain of length one returns
\* its argument
C5_CauseIsRoot ==
    /\ \A e \in Refs : Acyclic(e) =>
          LET roots == {l \in Links(e) : heap[l].Inner = Nil}
          IN  /\ Cardinality(roots) = 1
              /\ \A l \in Links(e) :
                    Cause(heap, l).ok /\ Cause(heap, l).ref \in roots
              /\ heap[e].Inner = Nil => Cause(heap, e).ref = e
    /\ (ret.op = "Cause" /\ ret.in.err # Nil /\ Acyclic(ret.in.err)) =>
          /\ ret.ok
          /\ ret.ref \in Links(ret.in.err)
          /\ heap[ret.ref].Inner = Nil

\* Cause has been called on the outermost link of a chain of three
C5_Witness ==
    /\ ret.op = "Cause" /\ ret.ok
    /\ Acyclic(ret.in.err)
    /\ Cardinality(Links(ret.in.err)) = 3
    /\ heap[heap[ret.in.err].Inner].Inner = ret.ref

\* C8: no Error is reachable from itself through one or more Inner links
C8_Acyclic == \A e \in Refs : e \notin Reach(e)

RECURSIVE ChainSeq(_, _)
\* the links of the acyclic chain of e, from the innermost to e
ChainSeq(h, e) ==
    IF h[e].Inner = Nil THEN <<e>> ELSE Append(ChainSeq(h, h[e].Inner), e)

RECURSIVE SplitBlank(_, _)
\* strings.Split(text, "\n\n"), cur being the block under way
SplitBlank(text, cur) ==
    IF text = <<>> THEN <<cur>>
    ELSE IF Len(text) >= 2 /\ text[1] = NL /\ text[2] = NL
    THEN <<cur>> \o SplitBlank(SubSeq(text, 3, Len(text)), <<>>)
    ELSE SplitBlank(Tail(text), Append(cur, Head(text)))

IsPrefix(p, t) == Len(p) <= Len(t) /\ SubSeq(t, 1, Len(p)) = p

\* "[<domain>:<code>] <message>" of the Error at e
Header(e) ==
    <<"[", heap[e].Domain, ":">> \o Itoa(heap[e].Code) \o <<"] ">>
    \o Message(domains, heap[e]).text

\* a text that has no empty line and does not end in a line break
NoBlank(m) ==
    LET t == m \o <<NL>>
    IN  \A i \in 1..(Len(t) - 1) : ~(t[i] = NL /\ t[i + 1] = NL)

BlocksInOrder(err, text) ==
    LET ch == ChainSeq(heap, err)
        bl == SplitBlank(text, <<>>)
    IN  /\ Len(bl) = Len(ch)
        /\ \A i \in 1..Len(ch) : IsPrefix(Header(ch[i]), bl[i])

\* C6 as stated: the text Error() returns for a chain of n links splits at
\* its blank lines into exactly n blocks, the i-th beginning with
\* "[<domain>:<code>] <message>" of the i-th link from the innermost
C6_Blocks ==
    (ret.op = "Error" /\ ret.ok) => BlocksInOrder(ret.in.err, ret.text)

\* C6 amended: the same, for a chain none of whose links has an empty line
\* in its "[<domain>:<code>] <message>" or a line break at the end of it
C6_BlocksOfPlainMessages ==
    (/\ ret.op = "Error" /\ ret.ok
     /\ \A l \in Links(ret.in.err) : NoBlank(Header(l)))
        => BlocksInOrder(ret.in.err, ret.text)

\* Error() has rendered a chain of three such links whose innermost and
\* outermost differ in code
C6_Witness ==
    /\ ret.op = "Error" /\ ret.ok
    /\ Cardinality(Links(ret.in.err)) = 3
    /\ \A l \in Links(ret.in.err) : NoBlank(Header(l))
    /\ heap[ret.in.err].Code # heap[ChainSeq(heap, ret.in.err)[1]].Code

RECURSIVE Path(_, _, _)
\* the records met along Inner from e in the heap h, e first, at most n of
\* them
Path(h, e, n) ==
    IF n = 0 THEN <<>>
    ELSE IF h[e].Inner = Nil THEN <<[at |-> e, rec |-> h[e]]>>
    ELSE <<[at |-> e, rec |-> h[e]]>> \o Path(h, h[e].Inner, n - 1)

\* the Errors that are the Inner of some Error: each was passed to Chain as
\* the predecessor and has been one since
Predecessors == {heap[e].Inner : e \in Refs} \ {Nil}

NoCycle(h) == \A e \in 1..Len(h) : Len(Path(h, e, Len(h) + 1)) <= Len(h)

\* C11, for the calls made on acyclic chains that create no cycle: a step
\* that calls Chain(inner, err) returns err with err.Inner = inner, leaves
\* the record of inner (Domain, Code, Info, Context, Inner) as it was, and
\* leaves the chain reachable from every Error that is a predecessor as it
\* was
C11_PredecessorsKept ==
    [][ (ret'.op = "Chain" /\ ret'.ok /\ NoCycle(heap) /\ NoCycle(heap')) =>
            /\ ret'.ref = ret'.in.err
            /\ heap'[ret'.in.err].Inner = ret'.in.inner
            /\ ret'.in.inner # Nil => heap'[ret'.in.inner] = heap[ret'.in.inner]
            /\ \A p \in Predecessors :
                  Path(heap', p, Len(heap)) = Path(heap, p, Len(heap)) ]_vars

(***************************************************************************)
(* RegSpec: the registry.  Domains are registered under the built-in name  *)
(* and two others, by DomainFunc and by Domain (with the map of the tests, *)
(* a map whose template names a key no Error has, and a map whose template *)
(* does not parse), before and after Errors naming them are built, and     *)
(* Message is called on every Error.                                       *)
(***************************************************************************)
RegNames == {"go", "ergo", "x"}

ErrorsMap == [c \in {0, 1, 2} |->
                IF c = 0 THEN <<"My error 0">>
                ELSE IF c = 1 THEN <<"My error 1">>
                ELSE <<"The ", "{{.name}}", " failed">>]

OtherMap == [c \in {2} |-> <<"x is ", "{{.x}}">>]

BadMap == [c \in {2} |-> <<"oops ", "{{">>]

RegArgs == {<<>>, <<StrV(<<"name">>), StrV(<<"x">>), StrV(<<"arg">>), IntV(1)>>}

NextReg ==
    \/ \E name \in RegNames : CallDomainFunc(name, "fnA")
    \/ \E name \in RegNames, domain \in {ErrorsMap, OtherMap, BadMap} :
          CallDomain(name, domain)
    \/ \E domain \in {"ergo", "x"}, code \in {2, 3}, args \in RegArgs :
          CallNew(MaxKept, 0, domain, code, args)
    \/ \E err \in Refs : CallMessage(err)

RegSpec == Init /\ [][NextReg]_vars

(***************************************************************************)
(* Properties of the registry and of Message.                              *)
(***************************************************************************)
\* C1: every step keeps every registered name bound to the renderer it had
\* ("go" to the built-in one), and a DomainFunc or Domain call naming a
\* registered domain fails and leaves the registry as it was
C1_WriteOnce ==
    /\ []("go" \in DOMAIN domains /\ domains["go"] = FuncRenderer("goFn"))
    /\ [][ /\ \A n \in DOMAIN domains :
                 n \in DOMAIN domains' /\ domains'[n] = domains[n]
           /\ (ret'.op \in {"DomainFunc", "Domain"}
                  /\ ret'.in.name \in DOMAIN domains)
                => (~ret'.ok /\ domains' = domains) ]_vars

\* DomainFunc has failed on a name that Domain registered before
C1_Witness ==
    /\ ret.op = "DomainFunc" /\ ~ret.ok
    /\ ret.in.name = "ergo"
    /\ domains["ergo"].kind = "tmpl"

RECURSIVE Rendered(_, _)
\* a template text rendered against info: each "{{.key}}" gives way to the
\* value of key, "<no value>" when info has no such key
Rendered(text, info) ==
    IF text = <<>> THEN <<>>
    ELSE LET c == Head(text)
         IN  (IF c \in {"{{.name}}", "{{.x}}"}
              THEN (IF c = "{{.name}}"
                    THEN (IF <<"name">> \in DOMAIN info
                          THEN FmtV(info[<<"name">>]) ELSE <<"<no value>">>)
                    ELSE (IF <<"x">> \in DOMAIN info
                          THEN FmtV(info[<<"x">>]) ELSE <<"<no value>">>))
              ELSE <<c>>)
             \o Rendered(Tail(text), info)

\* what Message must return for an Error of a domain registered with Domain
OfDeclared(e) ==
    LET m == declared[e.Domain]
    IN  IF e.Code \in DOMAIN m THEN Rendered(m[e.Code], e.Info)
        ELSE <<"Unknown error">>

\* C7: Message of an Error whose domain was registered with Domain(d, map)
\* returns map[Code] rendered against the Error's Info when Code is a key of
\* map and "Unknown error" when it is not
C7_DomainRenders ==
    /\ \A e \in Refs : heap[e].Domain \in DOMAIN declared =>
          Message(domains, heap[e]) = [ok |-> TRUE, text |-> OfDeclared(heap[e])]
    /\ (ret.op = "Message" /\ heap[ret.in.err].Domain \in DOMAIN declared) =>
          (ret.ok /\ ret.text = OfDeclared(heap[ret.in.err]))

\* Message has returned "The x failed" while another Error and another
\* registered domain exist
C7_Witness ==
    /\ ret.op = "Message" /\ ret.ok
    /\ ret.text = <<"The ", "x", " failed">>
    /\ heap[ret.in.err].Domain \in DOMAIN declared
    /\ Len(heap) = 2 /\ heap[1] # heap[2]
    /\ Cardinality(DOMAIN domains) = 3

\* fmt's form of the two Infos RegSpec builds
InfoText(info) ==
    IF info = EmptyInfo THEN <<"map[", "]">>
    ELSE <<"map[", "arg", ":", "1", " ", "name", ":", "x", "]">>

\* what Message must return for e under the registry of the state
Expected(e) ==
    IF e.Domain \notin DOMAIN domains
    THEN <<"Domain missing: [", e.Domain, ":", Digits[e.Code + 1], "] ">>
         \o InfoText(e.Info)
    ELSE IF e.Domain \in DOMAIN declared THEN OfDeclared(e)
    ELSE <<"fnA", " says ", Digits[e.Code + 1]>>

\* C10: New/Make with string keys succeeds whether or not its domain is
\* registered and leaves the registry as it was; in every state Message of
\* an Error is the "Domain missing" text while its domain is not registered
\* and the registered renderer's result once it is
C10_LookupAtRenderTime ==
    /\ [](\A e \in Refs :
            Message(domains, heap[e]) = [ok |-> TRUE, text |-> Expected(heap[e])])
    /\ [](ret.op = "Message" =>
            (ret.ok /\ ret.text = Expected(heap[ret.in.err])))
    /\ [][ ret'.op = "New" =>
             /\ domains' = domains
             /\ ret'.ok
             /\ ret'.ref = Len(heap')
             /\ heap'[ret'.ref].Domain = ret'.in.domain
             /\ heap'[ret'.ref].Code = ret'.in.code ]_vars

\* a domain has just been registered that an Error built before names, and
\* Message of that Error is no longer the "Domain missing" text
C10_Witness ==
    /\ ret.op = "Domain" /\ ret.ok
    /\ \E e \in Refs :
          /\ heap[e].Domain = ret.in.name
          /\ Message(domains, heap[e]).text = <<"The ", "x", " failed">>

====
